---- MODULE Spec2Model ----
(***************************************************************************)
(* Model of src/main.py: the header rotator (HeaderRotator), the process-   *)
(* wide origin cycle (DOMAINS), the retrying request executor               *)
(* (BGolAPIClient._make_request), the session operations built on it, the   *)
(* credentials parser (read_credentials_from_csv) and the run of main with  *)
(* its loop over the accounts (process_multiple_accounts).                  *)
(*                                                                          *)
(* Specifications: Spec (a session used directly, calls step by step),      *)
(* FairSpec (calls of the executor, with fairness), RotatorSpec (the        *)
(* rotator alone), CsvSpec (the parser alone), MainSpec (a run of main).    *)
(*                                                                          *)
(* One _make_request call is modelled step by step, so that the order of    *)
(* header rotation, connection open, request, sleep and connection close    *)
(* is visible:                                                              *)
(*   pc = "idle"     no operation of the client is running                  *)
(*   pc = "loop"     at the head of `for attempt in range(max_retries)`     *)
(*   pc = "request"  headers built, connection created, request not sent    *)
(*   pc = "sleep"    a retry branch computed `wait` and is about to sleep   *)
(*   pc = "finally"  the try block was left, `conn.close()` not yet run     *)
(***************************************************************************)
EXTENDS Integers, Sequences, FiniteSets, TLC

VARIABLES
    pool,        \* HeaderRotator.pool: the entries, in their current order
    index,       \* HeaderRotator.index (0-based)
    window,      \* history: entries returned by next() in the cycle under way
    browser,     \* the entry _get_common_headers drew for the current attempt
    domIdx,      \* position of the process-wide cycle DOMAINS (0-based)
    base,        \* history: last origin handed out by next(DOMAINS)
    token,       \* BGolAPIClient.token
    pc,          \* position inside the running operation
    op,          \* the operation that is running, or ran last
    additional,  \* additional_headers["app-login-token"] of the call
    maxRetries,  \* max_retries of the call
    attempt,     \* loop variable of _make_request
    outcome,     \* what the transport answered on the current attempt
    pending,     \* how the try block of the current attempt was left
    wait,        \* the delay computed by the retry branch
    requests,    \* history: number of conn.request calls of the call
    rated,       \* history: number of 429 answers of the call
    kinds,       \* history: what the transport did on the attempts of the call
    nSleeps,     \* history: number of time.sleep calls of the call
    lastSleep,   \* history: the last time.sleep of the call (deterministic part)
    draws,       \* history: header_rotator.next() / next(DOMAINS) calls of the call
    open,        \* number of connections created and not yet closed
    ret,         \* how the last _make_request call ended
    result,      \* how the last session operation ended
    csvFile,     \* the lines of the file at CSV_PATH
    parsed,      \* how read_credentials_from_csv ended: its list, or its exception
    env,         \* the environment of the run: is the file there, REFERRAL_CODE,
                 \* IS_SHOW_ALL_FOLLOWED
    mpc,         \* position inside main / process_multiple_accounts
    credentials, \* credentials_list
    acct,        \* idx of the loop of process_multiple_accounts (0 before it)
    rec,         \* the dict `result` of the account in work
    results,     \* the list `results`
    shareId,     \* share_id of the account in work
    sent,        \* history: the session operations called, in order
    naps,        \* history: number of pacing sleeps
    exitCode     \* the value main returned

clientVars == <<pool, index, window, browser, domIdx, base, token, pc, op, additional,
                maxRetries, attempt, outcome, pending, wait, requests, rated, kinds,
                nSleeps, lastSleep, draws, open, ret, result>>

mainVars == <<csvFile, parsed, env, mpc, credentials, acct, rec, results, shareId, sent,
              naps, exitCode>>

vars == <<clientVars, mainVars>>

rotatorVars == <<pool, index, window>>
callVars == <<op, additional, maxRetries>>

\* ---------------------------------------------------------------- bounds

\* largest pool size given to HeaderRotator(size)
MaxPool == 2
\* largest max_retries passed explicitly to _make_request
MaxRetriesArg == 3

\* largest size given to HeaderRotator(size) when the rotator is driven alone
MaxSize == 4
\* largest number of lines of a credentials file given to the parser alone
MaxLines == 4
\* largest number of rows of the credentials file of a run of main
MaxAccounts == 2

\* ------------------------------------------------------------- constants

\* default of the max_retries parameter
DefaultMaxRetries == 5

DomainList == <<"https://dsj77.net", "https://dsj44.com", "https://dsj35.com">>

NoToken == "None"
NoOrigin == "None"
\* no browser entry (entries are numbered from 1)
NoBrowser == 0

\* exceptions conn.request / getresponse / read may raise
Exceptions == {"HTTPException", "TimeoutError", "OSError"}

\* response bodies, as text_data (the body after decode("utf-8", errors="ignore"))
B_TOKEN == "{\"data\":\"T1\"}"
B_RESULT == "{\"resultCode\":true}"
B_LIST == "{\"data\":{\"showAllFollowed\":[\"S1\"]}}"
B_HTML == "<html>blocked</html>"
B_EMPTY == ""
\* the login answer for another account
B_TOKEN2 == "{\"data\":\"T2\"}"
\* a login answer whose token field is the empty string
B_BLANK == "{\"data\":\"\"}"

\* ------------------------------------------------------------- rotator

Range(s) == {s[i] : i \in 1..Len(s)}
Count(s, x) == Cardinality({i \in 1..Len(s) : s[i] = x})
\* s and t hold the same entries, each as often
SameBag(s, t) ==
    Len(s) = Len(t) /\ \A x \in Range(s) \cup Range(t) : Count(s, x) = Count(t, x)

\* generate_browser_profiles(n): a list of n entries (entry k is the k-th dict built)
GenerateBrowserProfiles(n) == [k \in 1..n |-> k]

\* random.shuffle(p): any reordering of p
Shuffle(p) == {q \in [1..Len(p) -> Range(p)] : SameBag(q, p)}

\* a buggy next() that shuffles before it reads the element it returns
HeaderRotatorNextReadAfter(p, i) ==
    IF i + 1 >= Len(p)
    THEN {[header |-> q[i + 1], pool |-> q, index |-> 0] : q \in Shuffle(p)}
    ELSE {[header |-> p[i + 1], pool |-> p, index |-> i + 1]}

\* a buggy next() that always hands out the first entry
HeaderRotatorNextFirst(p, i) ==
    IF i + 1 >= Len(p)
    THEN {[header |-> p[1], pool |-> q, index |-> 0] : q \in Shuffle(p)}
    ELSE {[header |-> p[1], pool |-> p, index |-> i + 1]}

\* HeaderRotator.next(): the possible (header, pool, index) after the call
HeaderRotatorNext(p, i) ==
    IF i + 1 >= Len(p)
    THEN {[header |-> p[i + 1], pool |-> q, index |-> 0] : q \in Shuffle(p)}
    ELSE {[header |-> p[i + 1], pool |-> p, index |-> i + 1]}

\* --------------------------------------------------------------- origins

\* a buggy origin source that builds a new cycle for every request
NextDomainFirst(d) == [value |-> DomainList[1], idx |-> d]

\* next(DOMAINS) at cycle position d
NextDomain(d) == [value |-> DomainList[d + 1], idx |-> (d + 1) % Len(DomainList)]

\* -------------------------------------------------------------- transport

\* the documents the server sends for the endpoint of operation o
BodiesFor(o) ==
    CASE o = "login" -> {B_TOKEN, B_BLANK, B_RESULT, B_HTML}
      [] o = "get_show_all_followed" -> {B_LIST, B_RESULT, B_HTML}
      [] OTHER -> {B_RESULT, B_HTML}

\* what one attempt of operation o can meet: a response (status, body) or an
\* exception
Outcomes(o) ==
    {[status |-> s, body |-> b, exc |-> "none"] : s \in {200, 201}, b \in BodiesFor(o)}
    \cup {[status |-> s, body |-> B_HTML, exc |-> "none"] : s \in {401, 403, 429}}
    \cup {[status |-> 500, body |-> b, exc |-> "none"] : b \in {B_HTML, B_RESULT}}
    \cup {[status |-> 204, body |-> B_EMPTY, exc |-> "none"]}
    \cup {[status |-> 0, body |-> "", exc |-> e] : e \in Exceptions}

NoOutcome == [status |-> 0, body |-> "", exc |-> "none"]

\* json.loads(text_data): the parsed document, or a decode error
JsonLoads(b) ==
    CASE b = B_TOKEN  -> [ok |-> TRUE, t |-> "str", v |-> "T1", list |-> <<>>]
      [] b = B_TOKEN2 -> [ok |-> TRUE, t |-> "str", v |-> "T2", list |-> <<>>]
      [] b = B_BLANK  -> [ok |-> TRUE, t |-> "str", v |-> "", list |-> <<>>]
      [] b = B_RESULT -> [ok |-> TRUE, t |-> "absent", v |-> "", list |-> <<>>]
      [] b = B_LIST   -> [ok |-> TRUE, t |-> "dict", v |-> "", list |-> <<"S1">>]
      [] OTHER        -> [ok |-> FALSE, t |-> "absent", v |-> "", list |-> <<>>]

\* except (http.client.HTTPException, TimeoutError)
Caught(e) == e \in {"HTTPException", "TimeoutError"}

\* a buggy classification that retries a 500 like a 429
ClassifyRetry5xx(s) ==
    CASE s \in {200, 201} -> "success"
      [] s \in {429, 500} -> "rate"
      [] s \in {401, 403} -> "blocked"
      [] OTHER -> "other"

\* a buggy classification that gives up on a 401/403 instead of retrying it
ClassifyNoBlockRetry(s) ==
    CASE s \in {200, 201} -> "success"
      [] s = 429 -> "rate"
      [] OTHER -> "other"

\* the status tests of _make_request, in their order
Classify(s) ==
    CASE s \in {200, 201} -> "success"
      [] s = 429 -> "rate"
      [] s \in {401, 403} -> "blocked"
      [] OTHER -> "other"

\* history tag of what the transport did on an attempt (independent of the code)
Tag(o) ==
    CASE o.exc = "OSError" -> "connerr"
      [] o.exc \in {"HTTPException", "TimeoutError"} -> "neterr"
      [] o.status = 429 -> "rate"
      [] o.status \in {401, 403} -> "blocked"
      [] o.status \in {200, 201} -> "success"
      [] OTHER -> "other"

\* class of an attempt: of its response, or of the exception it met
AttemptClass(o) ==
    IF o.exc = "none" THEN Classify(o.status)
    ELSE IF Caught(o.exc) THEN "neterr" ELSE "uncaught"

NoWait == [base |-> 0, lo |-> 0, hi |-> 0]

\* a buggy backoff that does not grow with the attempt
WaitForFlat(c, a) ==
    CASE c = "rate"    -> [base |-> 1, lo |-> 5, hi |-> 15]
      [] c = "blocked" -> [base |-> 0, lo |-> 20, hi |-> 40]
      [] c = "neterr"  -> [base |-> 1, lo |-> 10, hi |-> 20]
      [] OTHER -> NoWait

\* the delay of each retry branch: deterministic part in seconds, jitter range
\* [lo, hi) in tenths of a second
WaitFor(c, a) ==
    CASE c = "rate"    -> [base |-> 2 ^ a, lo |-> 5, hi |-> 15]
      [] c = "blocked" -> [base |-> 0, lo |-> 20, hi |-> 40]
      [] c = "neterr"  -> [base |-> 2 ^ a, lo |-> 10, hi |-> 20]
      [] OTHER -> NoWait

Exit(how, kind, o) == [how |-> how, kind |-> kind, status |-> o.status, body |-> o.body]
NoExit == [how |-> "none", kind |-> "none", status |-> 0, body |-> ""]

\* a buggy success branch that retries a body that is not JSON
TryExitRetryBadJson(o) ==
    LET c == AttemptClass(o) IN
    CASE c = "success" ->
            IF JsonLoads(o.body).ok THEN Exit("return", "returned", o)
            ELSE Exit("continue", "none", o)
      [] c \in {"rate", "blocked", "neterr"} -> Exit("continue", "none", o)
      [] c = "other" -> Exit("raise", "UnexpectedStatus", o)
      [] OTHER -> Exit("raise", o.exc, o)

\* a buggy success branch that forgets to return the parsed document
TryExitNoReturn(o) ==
    LET c == AttemptClass(o) IN
    CASE c = "success" ->
            IF JsonLoads(o.body).ok THEN Exit("continue", "none", o)
            ELSE Exit("raise", "InvalidJSON", o)
      [] c \in {"rate", "blocked", "neterr"} -> Exit("continue", "none", o)
      [] c = "other" -> Exit("raise", "UnexpectedStatus", o)
      [] OTHER -> Exit("raise", o.exc, o)

\* how the try block of one attempt is left
TryExit(o) ==
    LET c == AttemptClass(o) IN
    CASE c = "success" ->
            IF JsonLoads(o.body).ok THEN Exit("return", "returned", o)
            ELSE Exit("raise", "InvalidJSON", o)
      [] c \in {"rate", "blocked", "neterr"} -> Exit("continue", "none", o)
      [] c = "other" -> Exit("raise", "UnexpectedStatus", o)
      [] OTHER -> Exit("raise", o.exc, o)

\* a buggy release that closes after the try block, so not when it raises
ConnCloseAfterTry(n, e) == IF e.how = "raise" THEN n ELSE n - 1

\* finally: conn.close(), however the try block e was left; n connections were open
ConnClose(n, e) == n - 1

\* ------------------------------------------------------------ operations

\* a buggy guard that forgets the token check of logout
RequiresTokenNoLogout(o) ==
    o \in {"get_show_all_followed", "follow_share", "apply_referral_code"}

\* the operations that start with `if not self.token: raise`
RequiresToken(o) ==
    o \in {"get_show_all_followed", "follow_share", "apply_referral_code", "logout"}

Result(kind, status, body, value) ==
    [kind |-> kind, status |-> status, body |-> body, value |-> value]
NoResult == Result("none", 0, "", "")
NoRet == [kind |-> "none", status |-> 0, body |-> ""]

\* a buggy test of the token field that only rejects a missing one
TruthyNotNone(j) == j.t # "absent"

\* truth value of response.get("data") for the parsed document j (`if not token`)
Truthy(j) == ~(j.t = "absent" \/ (j.t = "str" /\ j.v = ""))

\* what the operation o makes of the way r its _make_request call ended, with
\* the stored token tok: the operation's result and the token afterwards
Finish(o, r, tok) ==
    LET j == JsonLoads(r.body) IN
    CASE r.kind # "returned" ->
            [result |-> Result(r.kind, r.status, r.body, ""), token |-> tok]
      [] o = "login" ->
            IF ~Truthy(j)
            THEN [result |-> Result("LoginFailed", r.status, r.body, ""), token |-> tok]
            ELSE LET t == IF j.t = "str" THEN j.v ELSE "dict" IN
                 [result |-> Result("returned", r.status, r.body, t), token |-> t]
      [] o = "get_show_all_followed" ->
            IF j.t = "str"
            THEN [result |-> Result("AttributeError", r.status, r.body, ""), token |-> tok]
            ELSE IF j.list # <<>>
            THEN [result |-> Result("returned", r.status, r.body, j.list[1]), token |-> tok]
            ELSE [result |-> Result("returned", r.status, r.body, "None"), token |-> tok]
      [] OTHER ->
            [result |-> Result("returned", r.status, r.body, r.body), token |-> tok]

NoSleep == [after |-> 0, base |-> 0]

\* ---------------------------------------------------------- credentials

\* Python's None where a string was expected
PyNone == "None"

\* lines of a credentials file (without their line end)
L_HEAD3 == "email,password,is_validator"
L_HEAD2 == "email,password"
L_A == "a@x.com,pw1,true"
L_B == "b@x.com,pw2"
L_C == " c@x.com ,pw3, YES "
L_D == "d@x.com,pw4,no"
L_E == "e@x.com,pw5,"
L_NOMAIL == ",pw6,true"
L_ONE == "f@x.com"
L_BLANK == "   "
L_COMMENT == "  # a@x.com,pw1"

Lines == {L_HEAD3, L_HEAD2, L_A, L_B, L_C, L_D, L_E, L_NOMAIL, L_ONE, L_BLANK,
          L_COMMENT}

\* str.strip() on the strings that occur
Strip(v) ==
    CASE v = " c@x.com " -> "c@x.com"
      [] v = " YES " -> "YES"
      [] v = L_BLANK -> ""
      [] v = L_COMMENT -> "# a@x.com,pw1"
      [] OTHER -> v

\* str.lstrip() on the strings that occur
LStrip(v) ==
    CASE v = " c@x.com " -> "c@x.com "
      [] v = " YES " -> "YES "
      [] v = L_BLANK -> ""
      [] v = L_COMMENT -> "# a@x.com,pw1"
      [] v = L_C -> "c@x.com ,pw3, YES "
      [] OTHER -> v

\* str.lower() on the strings that occur
Lower(v) ==
    CASE v = "YES" -> "yes"
      [] v = "TRUE" -> "true"
      [] OTHER -> v

\* s.startswith("#")
StartsWithHash(s) == s = "# a@x.com,pw1"

\* the fields the csv reader splits a line into
SplitCsv(l) ==
    CASE l = L_HEAD3 -> <<"email", "password", "is_validator">>
      [] l = L_HEAD2 -> <<"email", "password">>
      [] l = L_A -> <<"a@x.com", "pw1", "true">>
      [] l = L_B -> <<"b@x.com", "pw2">>
      [] l = L_C -> <<" c@x.com ", "pw3", " YES ">>
      [] l = L_D -> <<"d@x.com", "pw4", "no">>
      [] l = L_E -> <<"e@x.com", "pw5", "">>
      [] l = L_NOMAIL -> <<"", "pw6", "true">>
      [] l = L_ONE -> <<"f@x.com">>
      [] l = L_BLANK -> <<"   ">>
      [] l = L_COMMENT -> <<"  # a@x.com", "pw1">>
      [] OTHER -> <<l>>

\* the lines the generator hands to csv.DictReader:
\* `line.strip() and not line.lstrip().startswith("#")`
Kept(l) == Strip(l) # "" /\ ~StartsWithHash(LStrip(l))

\* the dict csv.DictReader makes of the fields of a row: a column the row is
\* too short for holds restval (None); fields beyond the header are put aside
DictRow(names, fields) ==
    [k \in Range(names) |->
        LET i == CHOOSE j \in 1..Len(names) : names[j] = k
        IN IF i <= Len(fields) THEN fields[i] ELSE PyNone]

\* row.get(key, default)
Get(row, key, default) == IF key \in DOMAIN row THEN row[key] ELSE default

AccountCredentials(e, p, v) == [email |-> e, password |-> p, is_validator |-> v]

Parsed(error, creds) == [error |-> error, credentials |-> creds]
NoParse == Parsed("unread", <<>>)

\* the body of the loop over the rows, for the rows still to read and the
\* credentials appended so far
RECURSIVE ParseRows(_, _, _)
ParseRows(names, rows, acc) ==
    IF rows = <<>> THEN Parsed("none", acc)
    ELSE LET row == DictRow(names, SplitCsv(Head(rows)))
             e == Get(row, "email", "")
             p == Get(row, "password", "")
             v == Get(row, "is_validator", "true")
         IN IF e = PyNone \/ p = PyNone THEN Parsed("AttributeError", <<>>)
            ELSE IF Strip(e) = "" THEN ParseRows(names, Tail(rows), acc)
            ELSE IF v = PyNone THEN Parsed("AttributeError", <<>>)
            ELSE ParseRows(names, Tail(rows),
                    Append(acc, AccountCredentials(Strip(e), Strip(p),
                        Lower(Strip(v)) \in {"true", "1", "yes", "y"})))

\* read_credentials_from_csv of an existing file with the lines file
ReadCsv(file) ==
    LET kept == SelectSeq(file, Kept)
        names == IF kept = <<>> THEN <<>> ELSE SplitCsv(Head(kept))
    IN IF ~({"email", "password"} \subseteq Range(names)) THEN Parsed("ValueError", <<>>)
       ELSE ParseRows(names, Tail(kept), <<>>)

\* ------------------------------------------------------------------ main

NoEnv == [exists |-> FALSE, referral |-> PyNone, flag |-> PyNone]
NoExitCode == -1

\* a buggy check that lets a run without referral code go on
RefMissingNever(r) == FALSE

\* `if not referral_code`: REFERRAL_CODE is unset or empty
RefMissing(r) == r = PyNone \/ r = ""

\* os.getenv("IS_SHOW_ALL_FOLLOWED", "false").lower() == "true"
IsShowAllFollowed(raw) == Lower(IF raw = PyNone THEN "false" ELSE raw) = "true"

\* the dict `result` at the start of the iteration for account i with email e
NewRecord(i, e) ==
    [account_number |-> i, email |-> e, login_success |-> FALSE,
     referral_success |-> FALSE, logout_success |-> FALSE, token |-> PyNone,
     referral_response |-> PyNone, logout_response |-> PyNone, error |-> PyNone]
NoRecord == NewRecord(0, "")

\* the server gives every account a token of its own
TokenBody(i) == IF i % 2 = 1 THEN B_TOKEN ELSE B_TOKEN2

\* what an attempt of operation o for account i can meet
OutcomesFor(o, i) ==
    {[x EXCEPT !.body = IF @ = B_TOKEN THEN TokenBody(i) ELSE @] : x \in Outcomes(o)}

\* the ways a _make_request call of operation o for account i ends (with the
\* default max_retries): on an attempt whose try block is left by return or
\* raise, or with the attempts used up
CallRets(o, i) ==
    {[kind |-> e.kind, status |-> e.status, body |-> e.body] :
        e \in {f \in {TryExit(x) : x \in OutcomesFor(o, i)} : f.how # "continue"}}
    \cup {[kind |-> "MaxRetries", status |-> 0, body |-> ""]}

Ended(kind, value, body, tok, requested) ==
    [kind |-> kind, value |-> value, body |-> body, token |-> tok, requested |-> requested]

\* the ways a call of session operation o for account i ends on a session that
\* holds tok: result kind, value returned, document returned, token held
\* afterwards, and whether a request was sent
CallOp(o, tok, i) ==
    IF RequiresToken(o) /\ tok = NoToken
    THEN {Ended("NotAuthenticated", "", "", tok, FALSE)}
    ELSE {Ended(f.result.kind, f.result.value,
                IF f.result.kind = "returned" THEN f.result.body ELSE "", f.token, TRUE) :
            f \in {Finish(o, r, tok) : r \in CallRets(o, i)}}

\* history entry of a call of operation o for account i
Call(i, o, tok, c) ==
    [acct |-> i, op |-> o, token |-> IF RequiresToken(o) THEN tok ELSE NoToken,
     kind |-> c.kind, value |-> c.value, requested |-> c.requested]

\* a buggy update that forgets to keep the token
LoggedInNoToken(r, t) == [r EXCEPT !.login_success = TRUE]

\* result["login_success"] = True; result["token"] = token
LoggedIn(r, t) == [r EXCEPT !.login_success = TRUE, !.token = t]

\* a buggy update that forgets the flag of the referral
ReferredNoFlag(r, resp) == [r EXCEPT !.referral_response = resp]

\* result["referral_success"] = True; result["referral_response"] = referral_response
Referred(r, resp) == [r EXCEPT !.referral_success = TRUE, !.referral_response = resp]

\* a buggy loop that leaves out the record of an account that failed
AppendedUnlessError(rs, r) == IF r.error # PyNone THEN rs ELSE Append(rs, r)

\* results.append(result)
Appended(rs, r) == Append(rs, r)

\* `if is_show_all_followed:` after the login
AfterLogin(show) == IF show THEN "list" ELSE "referral"

\* a buggy branch that follows whatever the candidate list held
AfterListAlwaysFollow(share) == "follow"

\* `if share_id:` after the candidate list
AfterList(share) == IF share # PyNone /\ share # "" THEN "follow" ELSE "append"

\* --------------------------------------------------------------- actions

\* the executor and the process-wide origin cycle before any call
InitCall ==
    /\ index = 0
    /\ window = <<>>
    /\ browser = NoBrowser
    /\ domIdx = 0
    /\ base = NoOrigin
    /\ token = NoToken
    /\ pc = "idle"
    /\ op = "none"
    /\ additional = NoToken
    /\ maxRetries = 0
    /\ attempt = 0
    /\ outcome = NoOutcome
    /\ pending = NoExit
    /\ wait = NoWait
    /\ requests = 0
    /\ rated = 0
    /\ kinds = {}
    /\ nSleeps = 0
    /\ lastSleep = NoSleep
    /\ draws = [rot |-> 0, dom |-> 0]
    /\ open = 0
    /\ ret = NoRet
    /\ result = NoResult

\* main is not running: nothing read, nothing processed
InitMain ==
    /\ csvFile = <<>>
    /\ parsed = NoParse
    /\ env = NoEnv
    /\ mpc = "off"
    /\ credentials = <<>>
    /\ acct = 0
    /\ rec = NoRecord
    /\ results = <<>>
    /\ shareId = PyNone
    /\ sent = <<>>
    /\ naps = 0
    /\ exitCode = NoExitCode

\* a session just constructed, used directly
Init ==
    /\ \E n \in 1..MaxPool : pool \in Shuffle(GenerateBrowserProfiles(n))
    /\ InitCall
    /\ InitMain

execVars == <<attempt, outcome, pending, wait, requests, rated, kinds, nSleeps, lastSleep, draws, open>>

\* BGolAPIClient.__init__: a new session with a fresh rotator and no token;
\* the module-level DOMAINS cycle is not touched
ClientInit ==
    /\ pc = "idle"
    /\ \E n \in 1..MaxPool : pool' \in Shuffle(GenerateBrowserProfiles(n))
    /\ index' = 0
    /\ window' = <<>>
    /\ token' = NoToken
    /\ op' = "none"
    /\ additional' = NoToken
    /\ maxRetries' = 0
    /\ attempt' = 0
    /\ requests' = 0
    /\ rated' = 0
    /\ kinds' = {}
    /\ nSleeps' = 0
    /\ lastSleep' = NoSleep
    /\ draws' = [rot |-> 0, dom |-> 0]
    /\ ret' = NoRet
    /\ result' = NoResult
    /\ UNCHANGED <<browser, domIdx, base, pc, outcome, pending, wait, open>>

\* a new session made by a direct user of the class
NewClient == ClientInit /\ UNCHANGED mainVars

\* entry of operation o with max_retries m: the token check, then the call of
\* _make_request up to the head of its loop
Start(o, m) ==
    /\ pc = "idle"
    /\ op' = o
    /\ ret' = NoRet
    /\ IF RequiresToken(o) /\ token = NoToken
       THEN /\ result' = Result("NotAuthenticated", 0, "", "")
            /\ UNCHANGED <<pc, additional, maxRetries, execVars>>
       ELSE /\ pc' = "loop"
            /\ additional' = IF RequiresToken(o) THEN token ELSE NoToken
            /\ maxRetries' = m
            /\ attempt' = 0
            /\ outcome' = NoOutcome
            /\ pending' = NoExit
            /\ wait' = NoWait
            /\ requests' = 0
            /\ rated' = 0
            /\ kinds' = {}
            /\ nSleeps' = 0
            /\ lastSleep' = NoSleep
            /\ draws' = [rot |-> 0, dom |-> 0]
            /\ result' = NoResult
            /\ UNCHANGED open
    /\ UNCHANGED <<rotatorVars, browser, domIdx, base, token>>
    /\ UNCHANGED mainVars

Login == Start("login", DefaultMaxRetries)
GetShowAllFollowed == Start("get_show_all_followed", DefaultMaxRetries)
FollowShare == Start("follow_share", DefaultMaxRetries)
ApplyReferralCode == Start("apply_referral_code", DefaultMaxRetries)
Logout == Start("logout", DefaultMaxRetries)
MakeRequest == \E m \in 0..MaxRetriesArg : Start("_make_request", m)

\* the end of the _make_request call with r, and of the operation around it
EndCall(r) ==
    LET f == Finish(op, r, token) IN
    /\ ret' = r
    /\ result' = f.result
    /\ token' = f.token
    /\ pc' = "idle"

\* head of the loop with attempts left: _get_common_headers() draws a browser
\* profile and an origin, then the connection object is created
BeginAttempt ==
    /\ pc = "loop"
    /\ attempt < maxRetries
    /\ \E r \in HeaderRotatorNext(pool, index) :
        /\ pool' = r.pool
        /\ index' = r.index
        /\ browser' = r.header
        /\ window' = IF r.index = 0 THEN <<>> ELSE Append(window, r.header)
    /\ LET d == NextDomain(domIdx) IN
        /\ domIdx' = d.idx
        /\ base' = d.value
    /\ draws' = [rot |-> draws.rot + 1, dom |-> draws.dom + 1]
    /\ open' = open + 1
    /\ pc' = "request"
    /\ UNCHANGED <<token, callVars, attempt, outcome, pending, wait, requests, rated,
                   kinds, nSleeps, lastSleep, ret, result>>
    /\ UNCHANGED mainVars

\* head of the loop with no attempt left: raise "Max retries exceeded"
Exhausted ==
    /\ pc = "loop"
    /\ attempt >= maxRetries
    /\ EndCall([kind |-> "MaxRetries", status |-> 0, body |-> ""])
    /\ UNCHANGED <<rotatorVars, browser, domIdx, base, callVars, attempt, outcome,
                   pending, wait, requests, rated, kinds, nSleeps, lastSleep, draws,
                   open>>
    /\ UNCHANGED mainVars

\* conn.request .. the status tests: the transport answers, the code picks the
\* branch; a retry branch computes its delay
Respond ==
    /\ pc = "request"
    /\ \E o \in Outcomes(op) :
        LET e == TryExit(o) IN
        /\ outcome' = o
        /\ requests' = requests + 1
        /\ rated' = IF Tag(o) = "rate" THEN rated + 1 ELSE rated
        /\ kinds' = kinds \cup {Tag(o)}
        /\ pending' = e
        /\ wait' = IF e.how = "continue" THEN WaitFor(AttemptClass(o), attempt) ELSE NoWait
        /\ pc' = IF e.how = "continue" THEN "sleep" ELSE "finally"
    /\ UNCHANGED <<rotatorVars, browser, domIdx, base, token, callVars, attempt, nSleeps,
                   lastSleep, draws, open, ret, result>>
    /\ UNCHANGED mainVars

\* time.sleep(wait) of a retry branch
Sleep ==
    /\ pc = "sleep"
    /\ nSleeps' = nSleeps + 1
    /\ lastSleep' = [after |-> attempt, base |-> wait.base]
    /\ pc' = "finally"
    /\ UNCHANGED <<rotatorVars, browser, domIdx, base, token, callVars, attempt, outcome,
                   pending, wait, requests, rated, kinds, draws, open, ret, result>>
    /\ UNCHANGED mainVars

\* finally: conn.close(); then the loop goes on, or the call ends
Finally ==
    /\ pc = "finally"
    /\ open' = ConnClose(open, pending)
    /\ browser' = NoBrowser
    /\ IF pending.how = "continue"
       THEN /\ attempt' = attempt + 1
            /\ pc' = "loop"
            /\ outcome' = NoOutcome
            /\ pending' = NoExit
            /\ wait' = NoWait
            /\ UNCHANGED <<token, ret, result>>
       ELSE /\ EndCall([kind |-> pending.kind, status |-> pending.status,
                        body |-> pending.body])
            /\ outcome' = NoOutcome
            /\ pending' = NoExit
            /\ wait' = NoWait
            /\ UNCHANGED attempt
    /\ UNCHANGED <<rotatorVars, domIdx, base, callVars, requests, rated, kinds, nSleeps,
                   lastSleep, draws>>
    /\ UNCHANGED mainVars

Next ==
    \/ NewClient
    \/ Login
    \/ GetShowAllFollowed
    \/ FollowShare
    \/ ApplyReferralCode
    \/ Logout
    \/ MakeRequest
    \/ BeginAttempt
    \/ Exhausted
    \/ Respond
    \/ Sleep
    \/ Finally

Spec == Init /\ [][Next]_vars

\* the steps of a running _make_request call
CallStep == BeginAttempt \/ Exhausted \/ Respond \/ Sleep \/ Finally

\* the interpreter keeps running the one thread: a call that can take a step
\* takes it (the socket operations are bounded by timeout=20, the sleeps
\* are finite)
\* calls of the executor: directly with any max_retries, or through login with
\* the default
CallNext == MakeRequest \/ Login \/ CallStep
FairSpec == Init /\ [][CallNext]_vars /\ WF_vars(CallStep)

\* ------------------------------------------------------ the rotator alone

\* everything but the rotator and the entry its caller holds
notRotatorVars == <<domIdx, base, token, pc, op, additional, maxRetries, attempt, outcome,
                    pending, wait, requests, rated, kinds, nSleeps, lastSleep, draws,
                    open, ret, result>>

\* HeaderRotator(size): generate the pool, shuffle it, cursor 0
HeaderRotatorInit ==
    /\ \E n \in 1..MaxSize : pool' \in Shuffle(GenerateBrowserProfiles(n))
    /\ index' = 0
    /\ window' = <<>>
    /\ browser' = NoBrowser
    /\ UNCHANGED notRotatorVars
    /\ UNCHANGED mainVars

\* a call of next() by any caller, who keeps the entry it got in browser
HeaderRotatorCall ==
    /\ \E r \in HeaderRotatorNext(pool, index) :
        /\ pool' = r.pool
        /\ index' = r.index
        /\ browser' = r.header
        /\ window' = IF r.index = 0 THEN <<>> ELSE Append(window, r.header)
    /\ UNCHANGED notRotatorVars
    /\ UNCHANGED mainVars

RotatorNext == HeaderRotatorInit \/ HeaderRotatorCall
RotatorSpec == Init /\ [][RotatorNext]_vars

\* ------------------------------------------------------- the parser alone

CsvFiles == UNION {[1..k -> Lines] : k \in 0..MaxLines}

\* read_credentials_from_csv is about to be called on an existing file
CsvInit ==
    /\ pool = <<>>
    /\ InitCall
    /\ csvFile \in CsvFiles
    /\ parsed = NoParse
    /\ env = [NoEnv EXCEPT !.exists = TRUE]
    /\ mpc = "read"
    /\ credentials = <<>>
    /\ acct = 0
    /\ rec = NoRecord
    /\ results = <<>>
    /\ shareId = PyNone
    /\ sent = <<>>
    /\ naps = 0
    /\ exitCode = NoExitCode

\* the call of read_credentials_from_csv
ReadCredentialsFromCsv ==
    /\ mpc = "read"
    /\ env.exists
    /\ parsed' = ReadCsv(csvFile)
    /\ mpc' = "off"
    /\ UNCHANGED <<csvFile, env, credentials, acct, rec, results, shareId, sent, naps,
                   exitCode>>
    /\ UNCHANGED clientVars

CsvNext == ReadCredentialsFromCsv
CsvSpec == CsvInit /\ [][CsvNext]_vars

\* ------------------------------------------------------------ a run of main
\* A session operation is taken as one step here, by the ways it can end
\* (CallOp); its attempts are followed step by step in Spec.
\*   mpc = "main"       at the start of main
\*   mpc = "process"    at the start of process_multiple_accounts
\*   mpc = "for"        at the head of the loop over the accounts
\*   mpc = "login" | "list" | "follow" | "referral"   before that call
\*   mpc = "append"     after the try statement of the iteration
\*   mpc = "exit"       main has returned

MainRows == {L_A, L_D, L_B}
MainFiles ==
    {<<L_HEAD3>> \o rows : rows \in UNION {[1..k -> MainRows] : k \in 0..MaxAccounts}}
Envs ==
    [exists : BOOLEAN, referral : {PyNone, "", "REF1"},
     flag : {PyNone, "true", "TRUE", "false"}]

MainInit ==
    /\ pool = <<>>
    /\ InitCall
    /\ env \in Envs
    /\ csvFile \in IF env.exists THEN MainFiles ELSE {<<>>}
    /\ parsed = NoParse
    /\ mpc = "main"
    /\ credentials = <<>>
    /\ acct = 0
    /\ rec = NoRecord
    /\ results = <<>>
    /\ shareId = PyNone
    /\ sent = <<>>
    /\ naps = 0
    /\ exitCode = NoExitCode

\* main up to the call of process_multiple_accounts: return 1 without the
\* file or without referral code
MainSetup ==
    /\ mpc = "main"
    /\ IF ~env.exists \/ RefMissing(env.referral)
       THEN exitCode' = 1 /\ mpc' = "exit"
       ELSE mpc' = "process" /\ UNCHANGED exitCode
    /\ UNCHANGED <<csvFile, parsed, env, credentials, acct, rec, results, shareId, sent,
                   naps>>
    /\ UNCHANGED clientVars

\* process_multiple_accounts up to its loop: an exception of
\* read_credentials_from_csv reaches the handler of main, which returns 1
ProcessBegin ==
    /\ mpc = "process"
    /\ parsed' = ReadCsv(csvFile)
    /\ IF parsed'.error # "none"
       THEN exitCode' = 1 /\ mpc' = "exit" /\ UNCHANGED credentials
       ELSE credentials' = parsed'.credentials /\ mpc' = "for" /\ UNCHANGED exitCode
    /\ UNCHANGED <<csvFile, env, acct, rec, results, shareId, sent, naps>>
    /\ UNCHANGED clientVars

\* a buggy loop that makes one client for all accounts
BeginAccountOneClient ==
    /\ mpc = "for"
    /\ acct < Len(credentials)
    /\ acct' = acct + 1
    /\ rec' = NewRecord(acct + 1, credentials[acct + 1].email)
    /\ shareId' = PyNone
    /\ IF acct = 0 THEN ClientInit ELSE UNCHANGED clientVars
    /\ mpc' = "login"
    /\ UNCHANGED <<csvFile, parsed, env, credentials, results, sent, naps, exitCode>>

\* head of the loop with an account left: the result dict, then the new client
BeginAccount ==
    /\ mpc = "for"
    /\ acct < Len(credentials)
    /\ acct' = acct + 1
    /\ rec' = NewRecord(acct + 1, credentials[acct + 1].email)
    /\ shareId' = PyNone
    /\ ClientInit
    /\ mpc' = "login"
    /\ UNCHANGED <<csvFile, parsed, env, credentials, results, sent, naps, exitCode>>

\* the end of the try statement after a call that raised k: the handler
Raised(k) ==
    /\ rec' = [rec EXCEPT !.error = k]
    /\ mpc' = "append"

\* client.login(...) and the two assignments after it
DoLogin ==
    /\ mpc = "login"
    /\ \E c \in CallOp("login", token, acct) :
        /\ sent' = Append(sent, Call(acct, "login", token, c))
        /\ token' = c.token
        /\ IF c.kind = "returned"
           THEN /\ rec' = LoggedIn(rec, c.value)
                /\ mpc' = AfterLogin(IsShowAllFollowed(env.flag))
           ELSE Raised(c.kind)
    /\ UNCHANGED <<csvFile, parsed, env, credentials, acct, results, shareId, naps,
                   exitCode>>
    /\ UNCHANGED <<pool, index, window, browser, domIdx, base, pc, op, additional,
                   maxRetries, attempt, outcome, pending, wait, requests, rated, kinds,
                   nSleeps, lastSleep, draws, open, ret, result>>

\* share_id = client.get_show_all_followed()
DoList ==
    /\ mpc = "list"
    /\ \E c \in CallOp("get_show_all_followed", token, acct) :
        /\ sent' = Append(sent, Call(acct, "get_show_all_followed", token, c))
        /\ IF c.kind = "returned"
           THEN /\ shareId' = c.value
                /\ mpc' = AfterList(c.value)
                /\ UNCHANGED rec
           ELSE Raised(c.kind) /\ UNCHANGED shareId
    /\ UNCHANGED <<csvFile, parsed, env, credentials, acct, results, naps, exitCode>>
    /\ UNCHANGED clientVars

\* client.follow_share(share_id)
DoFollow ==
    /\ mpc = "follow"
    /\ \E c \in CallOp("follow_share", token, acct) :
        /\ sent' = Append(sent, Call(acct, "follow_share", token, c))
        /\ IF c.kind = "returned"
           THEN mpc' = "append" /\ UNCHANGED rec
           ELSE Raised(c.kind)
    /\ UNCHANGED <<csvFile, parsed, env, credentials, acct, results, shareId, naps,
                   exitCode>>
    /\ UNCHANGED clientVars

\* client.apply_referral_code(referral_code) and the two assignments after it
DoReferral ==
    /\ mpc = "referral"
    /\ \E c \in CallOp("apply_referral_code", token, acct) :
        /\ sent' = Append(sent, Call(acct, "apply_referral_code", token, c))
        /\ IF c.kind = "returned"
           THEN /\ rec' = Referred(rec, c.body)
                /\ mpc' = "append"
           ELSE Raised(c.kind)
    /\ UNCHANGED <<csvFile, parsed, env, credentials, acct, results, shareId, naps,
                   exitCode>>
    /\ UNCHANGED clientVars

\* after the try statement: results.append(result), then the pacing sleep
AppendResult ==
    /\ mpc = "append"
    /\ results' = Appended(results, rec)
    /\ naps' = naps + 1
    /\ mpc' = "for"
    /\ UNCHANGED <<csvFile, parsed, env, credentials, acct, rec, shareId, sent, exitCode>>
    /\ UNCHANGED clientVars

\* the loop is over: the results are returned, saved and summed up; return 0
MainFinish ==
    /\ mpc = "for"
    /\ acct >= Len(credentials)
    /\ exitCode' = 0
    /\ mpc' = "exit"
    /\ UNCHANGED <<csvFile, parsed, env, credentials, acct, rec, results, shareId, sent,
                   naps>>
    /\ UNCHANGED clientVars

MainNext ==
    \/ MainSetup
    \/ ProcessBegin
    \/ BeginAccount
    \/ DoLogin
    \/ DoList
    \/ DoFollow
    \/ DoReferral
    \/ AppendResult
    \/ MainFinish

MainSpec == MainInit /\ [][MainNext]_vars

\* ---------------------------------------------------------------- claims

\* a _make_request call has ended (returned or raised)
CallEnded == pc = "idle" /\ ret.kind # "none"
\* an attempt is under way: its connection exists and its try block is running
InAttempt == pc \in {"request", "sleep", "finally"}
\* the transport has answered the current attempt
Answered == pc \in {"sleep", "finally"}
TokenOps == {"get_show_all_followed", "follow_share", "apply_referral_code", "logout"}
RetryStatuses == {429, 401, 403}

\* C1: when every attempt of a call is answered 401/403, the call never issues
\* more than max_retries requests, and it ends only after exactly max_retries
\* requests, with the "Max retries exceeded" error.
C1_BlockedExhaustsExactly ==
    kinds \subseteq {"blocked"} =>
        /\ requests <= maxRetries
        /\ CallEnded => (requests = maxRetries /\ ret.kind = "MaxRetries"
                         /\ result.kind = "MaxRetries")

C1_Witness ==
    /\ CallEnded
    /\ kinds = {"blocked"}
    /\ maxRetries = DefaultMaxRetries
    /\ requests = DefaultMaxRetries
    /\ ret.kind = "MaxRetries"

\* C2: when the first k answers of a call are 429 and answer k+1 is a 200/201
\* with a JSON body, the call returns after exactly k+1 requests and k sleeps;
\* one sleep lies between consecutive attempts, and the deterministic part of
\* the sleep after attempt i (0-based) is 2^i, never less than the one before.
C2_RateLimitedThenSuccess ==
    /\ (kinds \subseteq {"rate"} /\ pc \in {"loop", "request"}) =>
            /\ nSleeps = rated
            /\ attempt = rated
            /\ rated > 0 => (lastSleep.after = rated - 1 /\ lastSleep.base = 2 ^ (rated - 1))
    /\ (kinds \subseteq {"rate"} /\ pc = "sleep") =>
            /\ nSleeps = rated - 1
            /\ wait = [base |-> 2 ^ attempt, lo |-> 5, hi |-> 15]
            /\ nSleeps > 0 => wait.base >= lastSleep.base
    /\ (kinds \subseteq {"rate"} /\ pc = "finally") =>
            /\ nSleeps = rated
            /\ lastSleep = [after |-> rated - 1, base |-> 2 ^ (rated - 1)]
    /\ (CallEnded /\ kinds = {"rate", "success"} /\ JsonLoads(ret.body).ok) =>
            /\ ret.kind = "returned"
            /\ requests = rated + 1
            /\ nSleeps = rated
            /\ rated < maxRetries
    /\ (CallEnded /\ kinds = {"success"} /\ JsonLoads(ret.body).ok) =>
            (ret.kind = "returned" /\ requests = 1 /\ nSleeps = 0)

C2_Witness ==
    /\ CallEnded
    /\ kinds = {"rate", "success"}
    /\ ret.kind = "returned"
    /\ rated = DefaultMaxRetries - 1
    /\ requests = DefaultMaxRetries
    /\ nSleeps = DefaultMaxRetries - 1
    /\ lastSleep.base = 8

C4_TransportErrorsAlwaysRetried ==
    /\ (pc = "finally" /\ outcome.exc # "none") =>
            (pending.how = "continue" /\ nSleeps = attempt + 1)
    /\ (CallEnded /\ requests < maxRetries) => ret.kind \notin Exceptions

\* C5: an answer whose status is none of 200, 201, 429, 401, 403 ends the call
\* at once with the unexpected-status error, which carries the status and the
\* body text: the attempt does not sleep and no attempt follows it.
C5_UnexpectedStatusFailsAtOnce ==
    /\ (Answered /\ outcome.exc = "none"
            /\ outcome.status \notin ({200, 201} \cup RetryStatuses)) =>
            /\ pc = "finally"
            /\ pending = [how |-> "raise", kind |-> "UnexpectedStatus",
                          status |-> outcome.status, body |-> outcome.body]
            /\ nSleeps = attempt
    /\ (CallEnded /\ "other" \in kinds) =>
            /\ ret.kind = "UnexpectedStatus"
            /\ ret.status \notin ({200, 201} \cup RetryStatuses)
            /\ result = Result("UnexpectedStatus", ret.status, ret.body, "")
            /\ requests = attempt + 1
            /\ nSleeps = attempt
            /\ draws.rot = requests

C5_Witness ==
    /\ CallEnded
    /\ ret = [kind |-> "UnexpectedStatus", status |-> 500, body |-> B_RESULT]
    /\ maxRetries = DefaultMaxRetries
    /\ attempt = 1
    /\ requests = 2
    /\ nSleeps = 1

\* a step in which _get_common_headers ran (an attempt started)
Drew == pc = "loop" /\ pc' = "request"

\* C6: the len(pool) calls of next() that start at cursor 0 return every entry
\* of the pool exactly once, in every cycle; before the cycle is complete the
\* entries returned so far are as many as the cursor says.
C6_CycleIsPermutation ==
    [][Drew =>
        IF index' = 0
        THEN SameBag(Append(window, browser'), pool)
             /\ SameBag(Append(window, browser'), pool')
        ELSE window' = Append(window, browser') /\ Len(window') = index'
             /\ \A i, j \in 1..Len(window') : i # j => window'[i] # window'[j]]_vars

C6_Witness ==
    /\ pc = "request"
    /\ Len(pool) = 2
    /\ index = 0
    /\ window = <<>>
    /\ draws.rot = 4

\* C7: the cursor is always within 0 .. len(pool)-1; the call of next() that
\* takes it to len(pool) reshuffles and resets it to 0 before it returns, and
\* returns the entry it read before the reshuffle; a reshuffle changes the
\* order of the pool only.
C7_CursorInRange ==
    /\ index \in 0..(Len(pool) - 1)
    /\ [][/\ index' \in 0..(Len(pool') - 1)
          /\ Drew =>
                /\ browser' = pool[index + 1]
                /\ SameBag(pool', pool)
                /\ IF index + 1 = Len(pool) THEN index' = 0
                   ELSE index' = index + 1 /\ pool' = pool]_vars

C7_Witness ==
    /\ pc = "request"
    /\ Len(pool) = 2
    /\ index = 0
    /\ draws.rot = 2
    /\ browser = pool[1]

SuccOrigin(b) ==
    IF b = NoOrigin THEN DomainList[1]
    ELSE LET i == CHOOSE k \in 1..Len(DomainList) : DomainList[k] = b
         IN DomainList[(i % Len(DomainList)) + 1]

\* C8: every attempt draws one entry from the rotator and one origin; the
\* origin is the cyclic successor of the origin of the previous attempt of the
\* process, whichever call or session made it; nothing else moves the two
\* cursors, so a call of a attempts advances both by a.
C8_OneIdentityOneOriginPerAttempt ==
    /\ [](draws.rot = draws.dom)
    /\ [](InAttempt => draws.rot = attempt + 1)
    /\ [](pc = "loop" => draws.rot = attempt /\ requests = attempt)
    /\ [](CallEnded => draws.rot = requests)
    /\ [][IF Drew
          THEN /\ draws'.rot = draws.rot + 1
               /\ draws'.dom = draws.dom + 1
               /\ base' = SuccOrigin(base)
               /\ domIdx' = (domIdx + 1) % Len(DomainList)
               /\ index' = (index + 1) % Len(pool)
               /\ browser' = pool[index + 1]
          ELSE /\ domIdx' = domIdx
               /\ base' = base
               /\ (pc # "idle" \/ pc' # "idle") => (index' = index /\ pool' = pool)]_vars

C8_Witness ==
    /\ pc = "request"
    /\ token = NoToken
    /\ op = "login"
    /\ draws.dom = 1
    /\ base = DomainList[3]

\* C9: a connection exists exactly while an attempt is under way: each attempt
\* creates one and closes it before the next attempt starts and before the
\* call ends, whatever the outcome; never two at a time.
C9_ConnectionScopedToAttempt ==
    /\ open \in {0, 1}
    /\ InAttempt <=> open = 1

C9_Witness ==
    /\ CallEnded
    /\ ret.kind = "OSError"
    /\ requests = 3
    /\ open = 0

\* C10: get_show_all_followed, follow_share, apply_referral_code and logout on
\* a session without token fail with the not-authenticated error and issue no
\* request: no attempt starts, both cursors and the token stay as they were.
C10_NotAuthenticatedWithoutRequest ==
    [][(pc = "idle" /\ token = NoToken /\ op' \in TokenOps) =>
        /\ pc' = "idle"
        /\ result'.kind = "NotAuthenticated"
        /\ ret' = NoRet
        /\ token' = NoToken
        /\ UNCHANGED <<pool, index, window, browser, domIdx, base>>
        /\ UNCHANGED <<requests, draws, open>>]_vars

C10_Witness ==
    /\ pc = "idle"
    /\ token = NoToken
    /\ op = "apply_referral_code"
    /\ result.kind = "NotAuthenticated"
    /\ base = DomainList[2]

\* C11: login stores the token and returns it only when its _make_request call
\* returned and the document carries a non-empty token; a document without a
\* usable token makes it fail with the login-failed error; on that failure and
\* on every failure of the call the stored token stays what it was.
C11_LoginStoresTokenOnlyOnSuccess ==
    [][(op = "login" /\ pc # "idle" /\ pc' = "idle") =>
        LET j == JsonLoads(ret'.body)
            usable == ret'.kind = "returned" /\ j.t = "str" /\ j.v # ""
        IN /\ usable => (result'.kind = "returned" /\ result'.value = j.v /\ token' = j.v)
           /\ (ret'.kind = "returned" /\ ~usable) =>
                (result'.kind = "LoginFailed" /\ token' = token)
           /\ ret'.kind # "returned" => (result'.kind = ret'.kind /\ token' = token)
           /\ result'.kind = "returned" => usable]_vars

C11_Witness ==
    /\ pc = "idle"
    /\ op = "login"
    /\ ret.kind = "returned"
    /\ ret.body = B_BLANK
    /\ result.kind = "LoginFailed"
    /\ token = "T1"

\* C14 (as claimed): a call sleeps only between two of its attempts: whenever
\* it sleeps another attempt is left, so a call that ended has slept once less
\* than it sent requests, however it ended.
C14_SleepOnlyBetweenAttempts ==
    /\ pc = "sleep" => (pending.how = "continue" /\ attempt + 1 < maxRetries)
    /\ (CallEnded /\ requests > 0) => nSleeps = requests - 1

\* the ways a call ends without result
PermanentFailures == {"InvalidJSON", "UnexpectedStatus", "OSError"}
\* answers that end the call
TerminalTags == {"success", "other", "connerr"}

\* C19: a call never sends more than max_retries requests; it ends, and ends
\* as exactly one of: returned (the last answer was a 200/201 with a JSON
\* body), failed for good, or retries exhausted (max_retries requests, all of
\* them answered with a retry); the answer that ends a call is its last one.
C19_CallTerminates ==
    /\ [](requests <= maxRetries)
    /\ [](CallEnded =>
            /\ ret.kind \in {"returned", "MaxRetries"} \cup PermanentFailures
            /\ ret.kind = "returned" <=>
                   ("success" \in kinds /\ JsonLoads(ret.body).ok)
            /\ ret.kind = "MaxRetries" <=> kinds \cap TerminalTags = {}
            /\ ret.kind = "MaxRetries" => requests = maxRetries
            /\ ret.kind # "MaxRetries" => requests = attempt + 1)
    /\ []((pc # "idle" /\ kinds \cap TerminalTags # {}) =>
            (pc = "finally" /\ pending.how # "continue"))
    /\ (pc # "idle") ~> CallEnded

C19_Witness ==
    /\ CallEnded
    /\ ret.kind = "MaxRetries"
    /\ maxRetries = 3
    /\ requests = 3
    /\ kinds = {"rate", "blocked", "neterr"}

\* a step of RotatorSpec in which next() was called on a rotator that had
\* already handed out an entry: browser is that entry, browser' the new one
CalledAgain == browser # NoBrowser /\ browser' # NoBrowser

\* C18 (as claimed): with at least two entries in the pool, two consecutive
\* calls of next() never return the same entry, the last call of a cycle and
\* the first call of the next cycle included.
C18_NoConsecutiveRepeat ==
    [][(CalledAgain /\ Len(pool) >= 2) => browser' # browser]_vars

\* C18 (amended): with at least two entries in the pool, two consecutive calls
\* of next() within one cycle (no reshuffle between them) never return the
\* same entry: an entry returned differs from all entries returned before it
\* in the cycle.
C18_NoRepeatWithinCycle ==
    [][(CalledAgain /\ Len(pool) >= 2 /\ index # 0) =>
        /\ browser = window[Len(window)]
        /\ browser' # browser
        /\ browser' \notin Range(window)]_vars

C18_Witness ==
    /\ Len(pool) = 3
    /\ index = 2
    /\ Len(window) = 2
    /\ browser = window[2]
    /\ window[1] # window[2]

\* the lines of the file that are neither blank nor comments
DataLines(file) == SelectSeq(file, LAMBDA l : l \notin {L_BLANK, L_COMMENT})
\* a header, then rows that have at least an email and a password column
WellFormed(file) ==
    LET d == DataLines(file) IN
    /\ d # <<>>
    /\ d[1] \in {L_HEAD3, L_HEAD2}
    /\ \A i \in 2..Len(d) : d[i] \in {L_A, L_B, L_C, L_D, L_E, L_NOMAIL}
\* what the claim says of a data line under the header h: no credential for an
\* empty email; is_validator true without value, else by the value
ClaimedRow(h, l) ==
    CASE l = L_A -> <<AccountCredentials("a@x.com", "pw1", TRUE)>>
      [] l = L_B -> <<AccountCredentials("b@x.com", "pw2", TRUE)>>
      [] l = L_C -> <<AccountCredentials("c@x.com", "pw3", TRUE)>>
      [] l = L_D -> <<AccountCredentials("d@x.com", "pw4", h = L_HEAD2)>>
      [] l = L_E -> <<AccountCredentials("e@x.com", "pw5", h = L_HEAD2)>>
      [] OTHER -> <<>>
RECURSIVE ClaimedRows(_, _)
ClaimedRows(h, rows) ==
    IF rows = <<>> THEN <<>> ELSE ClaimedRow(h, Head(rows)) \o ClaimedRows(h, Tail(rows))

\* C15 (as claimed): of a file with a header and rows of two or three columns
\* the parser returns, in order, one credential per row with a non-empty
\* email: is_validator is true for a row without such a value, true for
\* true/1/yes/y in any case, false for any other value; blank lines and
\* comment lines are skipped.
C15_CsvParsing ==
    (parsed # NoParse /\ WellFormed(csvFile)) =>
        LET d == DataLines(csvFile) IN
        parsed = Parsed("none", ClaimedRows(d[1], Tail(d)))

\* an account is in work: its record is not yet in results
InAccount == mpc \in {"login", "list", "follow", "referral", "append"}
\* the calls made for account i, in order
CallsOf(i) == SelectSeq(sent, LAMBDA e : e.acct = i)
\* the loop over the accounts was entered
LoopEntered == mpc \in {"for", "login", "list", "follow", "referral", "append"}
                 \/ (mpc = "exit" /\ parsed.error = "none")

\* C12: the loop takes the accounts in the order of the credential list and
\* appends one record per account: at any time the records are those of the
\* accounts done, in order; a record of an account one of whose calls failed
\* carries that error; and when the loop is over there are as many records as
\* credentials, whichever accounts failed.
C12_OneRecordPerAccountInOrder ==
    LoopEntered =>
        /\ acct <= Len(credentials)
        /\ Len(results) = IF InAccount THEN acct - 1 ELSE acct
        /\ \A i \in 1..Len(results) :
              /\ results[i].account_number = i
              /\ results[i].email = credentials[i].email
              /\ \A k \in 1..Len(CallsOf(i)) :
                    CallsOf(i)[k].kind # "returned" =>
                        results[i].error = CallsOf(i)[k].kind
        /\ mpc = "exit" => (Len(results) = Len(credentials) /\ acct = Len(credentials))

C12_Witness ==
    /\ mpc = "exit"
    /\ Len(credentials) = 2
    /\ Len(results) = 2
    /\ results[1].email = "a@x.com"
    /\ results[1].error = "MaxRetries"
    /\ results[2].email = "d@x.com"
    /\ results[2].login_success

\* C13: the calls are made account after account (no call for an earlier
\* account after one for a later account); a session that is about to log in
\* is new: no token, rotator at cursor 0, nothing sent for its account; and
\* the token a call carries is the one the login of the same account returned.
C13_SessionPerAccount ==
    /\ \A i, j \in 1..Len(sent) : i < j => sent[i].acct <= sent[j].acct
    /\ \A i \in 1..Len(sent) : sent[i].acct \in 1..acct
    /\ mpc = "login" =>
          (token = NoToken /\ index = 0 /\ window = <<>> /\ CallsOf(acct) = <<>>)
    /\ \A i \in 1..Len(sent) :
          LET e == sent[i] IN
          IF e.op = "login" THEN e.token = NoToken
          ELSE /\ e.token # NoToken
               /\ CallsOf(e.acct)[1].op = "login"
               /\ CallsOf(e.acct)[1].kind = "returned"
               /\ e.token = CallsOf(e.acct)[1].value
    /\ InAccount /\ mpc # "login" /\ rec.login_success => token = rec.token

C13_Witness ==
    /\ Len(sent) = 4
    /\ sent[2].acct = 1
    /\ sent[2].op = "apply_referral_code"
    /\ sent[2].token = "T1"
    /\ sent[4].acct = 2
    /\ sent[4].op = "apply_referral_code"
    /\ sent[4].token = "T2"

\* the run lacks the file or the referral code
SetupFails == ~env.exists \/ env.referral \in {PyNone, ""}

\* C16: main returns 0 when the loop over the accounts was completed, whatever
\* errors the records hold, and only then; without the credentials file or
\* without REFERRAL_CODE it returns 1, no account is taken up and no call is
\* made.
C16_ExitCode ==
    /\ mpc = "exit" <=> exitCode \in {0, 1}
    /\ (mpc = "exit" /\ LoopEntered) => exitCode = 0
    /\ exitCode = 0 =>
          (LoopEntered /\ ~SetupFails /\ Len(results) = Len(credentials))
    /\ SetupFails =>
          /\ mpc \in {"main", "exit"}
          /\ mpc = "exit" => exitCode = 1
          /\ acct = 0 /\ results = <<>> /\ sent = <<>> /\ parsed = NoParse
          /\ pool = <<>> /\ token = NoToken

C16_Witness ==
    /\ mpc = "exit"
    /\ exitCode = 0
    /\ Len(results) = 2
    /\ results[1].error = "OSError"
    /\ results[2].error = "LoginFailed"

\* the record of account i: in results, or in work
RecordOf(i) == IF i <= Len(results) THEN results[i] ELSE rec
\* account i has its record complete
Recorded(i) == i <= Len(results) \/ (i = acct /\ mpc = "append")

\* C17: with the flag off, when the login of an account returned the token T
\* and its apply_referral_code call returned, the record of the account has
\* login_success and referral_success true, token T, the answer of the
\* referral call, and no error.
C17_DirectReferralRecord ==
    \A i \in 1..acct :
        LET cs == CallsOf(i) IN
        (Recorded(i) /\ Len(cs) = 2 /\ cs[1].op = "login" /\ cs[1].kind = "returned"
            /\ cs[2].op = "apply_referral_code" /\ cs[2].kind = "returned") =>
            /\ RecordOf(i).login_success = TRUE
            /\ RecordOf(i).referral_success = TRUE
            /\ RecordOf(i).token = cs[1].value
            /\ RecordOf(i).token \in {"T1", "T2"}
            /\ RecordOf(i).referral_response = B_RESULT
            /\ RecordOf(i).error = PyNone
            /\ RecordOf(i).account_number = i

C17_Witness ==
    /\ mpc = "exit"
    /\ env.flag = "false"
    /\ Len(results) = 1
    /\ results[1] = [NewRecord(1, "a@x.com") EXCEPT !.login_success = TRUE,
                        !.referral_success = TRUE, !.token = "T1",
                        !.referral_response = B_RESULT]

\* C20: every call is made for the account in work and sends a request; the
\* first call of an account is its login; any other call follows a login of
\* the account that returned, and carries its token; with the flag on the
\* call after the login fetches the candidate list, follow_share comes only
\* after a list that returned a candidate, and apply_referral_code is never
\* called; with the flag off the only call after the login is
\* apply_referral_code.
C20_CallOrder ==
    [][Len(sent') = Len(sent) + 1 =>
        LET e == sent'[Len(sent')]
            own == CallsOf(e.acct)
            show == env.flag \in {"true", "TRUE"}
        IN /\ e.acct = acct
           /\ e.requested
           /\ e.op = "login" <=> own = <<>>
           /\ e.op # "login" =>
                /\ own[1].op = "login" /\ own[1].kind = "returned"
                /\ e.token = own[1].value /\ e.token # NoToken
                /\ own[Len(own)].kind = "returned"
           /\ e.op = "get_show_all_followed" => (show /\ Len(own) = 1)
           /\ e.op = "follow_share" =>
                /\ show /\ Len(own) = 2
                /\ own[2].op = "get_show_all_followed"
                /\ own[2].value = "S1"
           /\ e.op = "apply_referral_code" => (~show /\ Len(own) = 1)
           /\ e.op \in {"login", "get_show_all_followed", "follow_share",
                         "apply_referral_code"}]_vars

C20_Witness ==
    /\ mpc = "append"
    /\ env.flag = "TRUE"
    /\ Len(sent) = 3
    /\ sent[1].op = "login"
    /\ sent[2].op = "get_show_all_followed"
    /\ sent[2].value = "S1"
    /\ sent[3].op = "follow_share"
    /\ sent[3].token = "T1"

\* C21: every record, appended or in work, at every point of the run:
\* referral_success only with login_success; login_success exactly when the
\* token is not None; referral_response only with referral_success;
\* logout_success false and logout_response None; and error not None exactly
\* when a call made for the account raised.
C21_RecordInvariants ==
    \A i \in 1..acct :
        LET r == RecordOf(i)
            cs == CallsOf(i)
        IN /\ r.account_number = i
           /\ r.referral_success => r.login_success
           /\ r.login_success <=> r.token # PyNone
           /\ r.referral_response # PyNone => r.referral_success
           /\ r.logout_success = FALSE
           /\ r.logout_response = PyNone
           /\ r.error # PyNone <=> \E k \in 1..Len(cs) : cs[k].kind # "returned"

C21_Witness ==
    /\ mpc = "exit"
    /\ Len(results) = 2
    /\ results[1].login_success
    /\ results[1].token = "T1"
    /\ ~results[1].referral_success
    /\ results[1].error = "UnexpectedStatus"
    /\ results[2].referral_success
    /\ results[2].token = "T2"
    /\ results[2].error = PyNone

====
